---- MODULE Spec2Model ----
(***************************************************************************)
(* A model of komle's flattening utilities (src/komle/utils.py):           *)
(*   obj_dict      the Tree Flattener (explicit work list)                 *)
(*   plural_dict   the Frame Builder                                       *)
(*   to_plain      the Nested-to-Plain Converter                           *)
(*   logdata_dict  the Log Tabular Decoder                                 *)
(*                                                                         *)
(* and of the generic store client (src/komle/soap_client.py):             *)
(*   StoreGenericClient.get, list, get_objects and BaseClient._parse_reply *)
(*                                                                         *)
(* The utilities are pure.  A behaviour draws one argument in Init and one *)
(* action applies one function to it, recording the call and what it       *)
(* returned or raised.  obj_dict is also run one iteration of its loop at  *)
(* a time (walk holds its work list and its mapping), and a client call    *)
(* runs in steps around the remote operation (sent holds the operations    *)
(* invoked on the store so far).                                           *)
(*                                                                         *)
(* Python values                                                           *)
(*   None                      [kind |-> "None"]                           *)
(*   a simple-typed value      [kind |-> "scalar", v |-> text]             *)
(*   a complexTypeDefinition   [kind |-> "complex", cls, tag, attrs,       *)
(*                              content, plural, value]                    *)
(*   a _PluralBinding          [kind |-> "plural", items |-> <<...>>]      *)
(*   a dict (ordered)          [kind |-> "dict", items |-> <<<<k, v>>..>>] *)
(*   a list                    [kind |-> "list", items |-> <<...>>]        *)
(*   a cast log value          [kind |-> "float" | "int" | "str", v]       *)
(* attrs is the _AttributeMap in order, <<id, value>> pairs; content is    *)
(* orderedContent(), one [id, value] per element occurrence; plural is the *)
(* set of element ids the type declares as repeated.                       *)
(***************************************************************************)
EXTENDS Integers, Sequences, FiniteSets, TLC

VARIABLES arg, pc, call, ret, walk, sent

vars == <<arg, pc, call, ret, walk, sent>>

None == [kind |-> "None"]

Scalar(text) == [kind |-> "scalar", v |-> text]

SimpleNode(attrs, text) ==
  [kind |-> "complex", cls |-> "cs_simple", tag |-> "SIMPLE", attrs |-> attrs,
   content |-> <<>>, plural |-> {}, value |-> Scalar(text)]

StructNode(cls, attrs, content, plural) ==
  [kind |-> "complex", cls |-> cls, tag |-> "ELEMENT_ONLY", attrs |-> attrs,
   content |-> content, plural |-> plural, value |-> None]

PluralBinding(items) == [kind |-> "plural", items |-> items]

PyDict(items) == [kind |-> "dict", items |-> items]

PyList(items) == [kind |-> "list", items |-> items]

(***************************************************************************)
(* Ordered dicts: a key assigned again keeps its place.                    *)
(***************************************************************************)
HasKey(d, k) == \E i \in 1..Len(d) : d[i][1] = k

DictGet(d, k) == d[CHOOSE i \in 1..Len(d) : d[i][1] = k][2]

DictSet(d, k, val) ==
  IF HasKey(d, k)
  THEN [i \in 1..Len(d) |-> IF d[i][1] = k THEN <<k, val>> ELSE d[i]]
  ELSE Append(d, <<k, val>>)

DictKeys(d) == [i \in 1..Len(d) |-> d[i][1]]

KeySet(d) == {d[i][1] : i \in 1..Len(d)}

(***************************************************************************)
(* The binding layer's accessors.                                          *)
(***************************************************************************)
\* isinstance(obj, complexTypeDefinition) and
\* obj._ContentTypeTag not in (obj._CT_EMPTY, obj._CT_SIMPLE)
IsStructured(obj) ==
  obj.kind = "complex" /\ obj.tag \notin {"EMPTY", "SIMPLE"}

\* obj._AttributeMap.values(): empty for a simple-typed value
AttributeMap(obj) == IF obj.kind = "complex" THEN obj.attrs ELSE <<>>

\* obj._ElementMap[name].value(obj): the occurrence of a singular element, the
\* _PluralBinding of all occurrences of a repeated one
RECURSIVE Occurrences(_, _)
Occurrences(content, id) ==
  IF content = <<>> THEN <<>>
  ELSE (IF content[1].id = id THEN <<content[1].value>> ELSE <<>>)
         \o Occurrences(Tail(content), id)

ElementValue(obj, id) ==
  IF id \in obj.plural
  THEN PluralBinding(Occurrences(obj.content, id))
  ELSE Occurrences(obj.content, id)[1]

\* faulty variant: delimiter.join([base_name, name]), the empty base not filtered out
JoinPath_Unfiltered(delimiter, base_name, name) ==
  base_name \o delimiter \o name

\* delimiter.join(filter(None, [base_name, name]))
JoinPath(delimiter, base_name, name) ==
  IF base_name = "" THEN name
  ELSE IF name = "" THEN base_name
  ELSE base_name \o delimiter \o name

(***************************************************************************)
(* obj_dict: one iteration of the while loop over the work list, and the   *)
(* loop.  o holds include_attr, prefix_attr, delimiter and start_idx.      *)
(***************************************************************************)
\* faulty variant: the attribute is stored under the node's own path
RECURSIVE EmitAttrs_AtNodeKey(_, _, _, _)
EmitAttrs_AtNodeKey(flatten_witsml, attrs, base_name, o) ==
  IF attrs = <<>> THEN flatten_witsml
  ELSE EmitAttrs_AtNodeKey(DictSet(flatten_witsml, base_name, attrs[1][2]),
                           Tail(attrs), base_name, o)

\* for attr_use in obj._AttributeMap.values():
\*   flatten_witsml[join(base_name, prefix_attr + id)] = attr_use.value(obj)
RECURSIVE EmitAttrs(_, _, _, _)
EmitAttrs(flatten_witsml, attrs, base_name, o) ==
  IF attrs = <<>> THEN flatten_witsml
  ELSE EmitAttrs(DictSet(flatten_witsml,
                         JoinPath(o.delimiter, base_name,
                                  o.prefix_attr \o attrs[1][1]),
                         attrs[1][2]),
                 Tail(attrs), base_name, o)

PushMembers(base_name, plural_obj, o) ==
  [i \in 1..Len(plural_obj.items) |->
     <<base_name \o "[" \o ToString(o.start_idx + (i - 1)) \o "]",
       plural_obj.items[i]>>]

PushChildren(base_name, obj, o) ==
  [i \in 1..Len(obj.content) |->
     <<JoinPath(o.delimiter, base_name, obj.content[i].id),
       ElementValue(obj, obj.content[i].id)>>]

ObjDictStep(obj_list, flatten_witsml, o) ==
  LET n == Len(obj_list)
      base_name == obj_list[n][1]
      popped == obj_list[n][2]
      rest == SubSeq(obj_list, 1, n - 1)
      isPlural == popped.kind = "plural"
      obj == IF isPlural THEN None ELSE popped
      list1 == IF isPlural THEN rest \o PushMembers(base_name, popped, o)
               ELSE rest
      flat1 == IF ~isPlural /\ o.include_attr
               THEN EmitAttrs(flatten_witsml, AttributeMap(obj), base_name, o)
               ELSE flatten_witsml
  IN  IF IsStructured(obj)
      THEN [obj_list |-> list1 \o PushChildren(base_name, obj, o),
            flatten_witsml |-> flat1]
      ELSE IF obj # None
      THEN [obj_list |-> list1,
            flatten_witsml |->
              DictSet(flat1, base_name,
                      IF obj.kind = "complex" THEN obj.value ELSE obj)]
      ELSE [obj_list |-> list1, flatten_witsml |-> flat1]

RECURSIVE ObjDictLoop(_, _, _)
ObjDictLoop(obj_list, flatten_witsml, o) ==
  IF obj_list = <<>> THEN flatten_witsml
  ELSE LET s == ObjDictStep(obj_list, flatten_witsml, o)
       IN  ObjDictLoop(s.obj_list, s.flatten_witsml, o)

ObjDict(obj, o) == ObjDictLoop(<<<<"", obj>>>>, <<>>, o)

(***************************************************************************)
(* plural_dict.  The keys seen, in first-seen order; then the frame, with  *)
(* one slot per member (fill_missing) or one entry per member that has the *)
(* key.                                                                    *)
(***************************************************************************)
NotIn(existing_keys, k) == \A i \in 1..Len(existing_keys) : existing_keys[i] # k

\* existing_keys.extend([k for k in flatten_witsml if k not in existing_keys])
ExtendKeys(existing_keys, flatten_witsml) ==
  existing_keys \o SelectSeq(DictKeys(flatten_witsml),
                             LAMBDA k : NotIn(existing_keys, k))

RECURSIVE ExistingKeys(_, _)
ExistingKeys(existing_keys, frame_list) ==
  IF frame_list = <<>> THEN existing_keys
  ELSE ExistingKeys(ExtendKeys(existing_keys, frame_list[1]), Tail(frame_list))

\* frame_dict[key][idx] = fw[key] for every key of fw (fill_missing)
RECURSIVE AssignMember(_, _, _)
AssignMember(frame_dict, fw, idx) ==
  IF fw = <<>> THEN frame_dict
  ELSE LET key == fw[1][1]
       IN  AssignMember(
             IF HasKey(frame_dict, key)
             THEN DictSet(frame_dict, key,
                          [DictGet(frame_dict, key) EXCEPT ![idx] = fw[1][2]])
             ELSE frame_dict,
             Tail(fw), idx)

\* faulty variant: frame_dict[key].insert(0, fw[key])
RECURSIVE AppendMember_Prepend(_, _)
AppendMember_Prepend(frame_dict, fw) ==
  IF fw = <<>> THEN frame_dict
  ELSE AppendMember_Prepend(
         DictSet(frame_dict, fw[1][1],
                 <<fw[1][2]>> \o DictGet(frame_dict, fw[1][1])),
         Tail(fw))

\* frame_dict[key].append(fw[key]) for every key of fw (not fill_missing)
RECURSIVE AppendMember(_, _)
AppendMember(frame_dict, fw) ==
  IF fw = <<>> THEN frame_dict
  ELSE AppendMember(DictSet(frame_dict, fw[1][1],
                            Append(DictGet(frame_dict, fw[1][1]), fw[1][2])),
                    Tail(fw))

\* faulty variant: the loop over the members stops after the first
FillFrame_FirstOnly(frame_dict, frame_list, idx) ==
  IF frame_list = <<>> THEN frame_dict
  ELSE AssignMember(frame_dict, frame_list[1], 1)

RECURSIVE FillFrame(_, _, _)
FillFrame(frame_dict, frame_list, idx) ==
  IF idx > Len(frame_list) THEN frame_dict
  ELSE FillFrame(AssignMember(frame_dict, frame_list[idx], idx),
                 frame_list, idx + 1)

RECURSIVE AppendFrame(_, _)
AppendFrame(frame_dict, frame_list) ==
  IF frame_list = <<>> THEN frame_dict
  ELSE AppendFrame(AppendMember(frame_dict, frame_list[1]), Tail(frame_list))

\* the frame as the dict of lists the caller gets
AsFrame(frame_dict) ==
  PyDict([i \in 1..Len(frame_dict) |->
            <<frame_dict[i][1], PyList(frame_dict[i][2])>>])

\* faulty variant: fill_missing is ignored, values are always appended
PluralDict_AlwaysAppend(plural_obj, fill_missing, o) ==
  LET n == Len(plural_obj.items)
      frame_list == [i \in 1..n |-> ObjDict(plural_obj.items[i], o)]
      existing_keys == ExistingKeys(<<>>, frame_list)
  IN  AsFrame(AppendFrame([i \in 1..Len(existing_keys) |->
                             <<existing_keys[i], <<>>>>],
                          frame_list))

PluralDict(plural_obj, fill_missing, o) ==
  LET n == Len(plural_obj.items)
      frame_list == [i \in 1..n |-> ObjDict(plural_obj.items[i], o)]
      existing_keys == ExistingKeys(<<>>, frame_list)
  IN  IF fill_missing
      THEN AsFrame(FillFrame([i \in 1..Len(existing_keys) |->
                                <<existing_keys[i], [j \in 1..n |-> None]>>],
                             frame_list, 1))
      ELSE AsFrame(AppendFrame([i \in 1..Len(existing_keys) |->
                                  <<existing_keys[i], <<>>>>],
                               frame_list))

(***************************************************************************)
(* logdata_dict.  A text (mnemonicList, a data row) is a sequence of       *)
(* pieces, each a delimiter character or a run of other characters; split  *)
(* cuts it at the pieces equal to the delimiter.  A raised exception is    *)
(* the value [kind |-> "raised", exc |-> its class, args |-> the values    *)
(* its message carries].                                                   *)
(***************************************************************************)
Raised(exc, args) == [kind |-> "raised", exc |-> exc, args |-> args]

\* text.split(delimiter)
RECURSIVE SplitFrom(_, _, _, _)
SplitFrom(text, delimiter, fields, point_str) ==
  IF text = <<>> THEN Append(fields, point_str)
  ELSE IF text[1] = delimiter
  THEN SplitFrom(Tail(text), delimiter, Append(fields, point_str), "")
  ELSE SplitFrom(Tail(text), delimiter, fields, point_str \o text[1])

Split(text, delimiter) == SplitFrom(text, delimiter, <<>>, "")

\* the keys of LOG_PRIM_TYPES
LogPrimTypeNames ==
  {"byte", "date time", "double", "float", "int", "long", "short", "string",
   "string40", "string16", "unknown"}

\* LOG_PRIM_TYPES[typeLogData], for a key of the table
LOG_PRIM_TYPES(typeLogData) ==
  CASE typeLogData = "byte" -> "bytes"
    [] typeLogData = "date time" -> "timestamp"
    [] typeLogData \in {"double", "float"} -> "float"
    [] typeLogData \in {"int", "long", "short"} -> "int"
    [] OTHER -> "str"

\* float(point_str), int(point_str) on the field texts of the model: the
\* canonical text of the number, "" when Python raises ValueError
ParseFloat(point_str) ==
  CASE point_str = "100.0" -> "100.0"
    [] point_str = "7" -> "7.0"
    [] OTHER -> ""

ParseInt(point_str) ==
  CASE point_str = "7" -> "7"
    [] OTHER -> ""

\* value_cast(point_str): bytes(str) without an encoding is a TypeError; none
\* of the model's field texts is an xsd:dateTime
Cast(value_cast, point_str) ==
  CASE value_cast = "float" ->
         IF ParseFloat(point_str) = ""
         THEN Raised("ValueError", <<point_str>>)
         ELSE [kind |-> "float", v |-> ParseFloat(point_str)]
    [] value_cast = "int" ->
         IF ParseInt(point_str) = ""
         THEN Raised("ValueError", <<point_str>>)
         ELSE [kind |-> "int", v |-> ParseInt(point_str)]
    [] value_cast = "str" -> [kind |-> "str", v |-> point_str]
    [] value_cast = "bytes" -> Raised("TypeError", <<>>)
    [] OTHER -> Raised("SimpleTypeValueError", <<point_str>>)

\* mnem_cast_map: the last logCurveInfo of a mnemonic decides
HasCurve(log, mnem) ==
  \E i \in 1..Len(log.logCurveInfo) : log.logCurveInfo[i].mnemonic = mnem

\* faulty variant: every column is cast as the first curve
MnemCast_FirstCurve(log, mnem) ==
  LOG_PRIM_TYPES(log.logCurveInfo[1].typeLogData)

MnemCast(log, mnem) ==
  LET last == CHOOSE i \in 1..Len(log.logCurveInfo) :
                /\ log.logCurveInfo[i].mnemonic = mnem
                /\ \A j \in (i + 1)..Len(log.logCurveInfo) :
                     log.logCurveInfo[j].mnemonic # mnem
  IN  LOG_PRIM_TYPES(log.logCurveInfo[last].typeLogData)

\* faulty variant: an empty field appends None whatever fill_missing is
RECURSIVE DecodeRow_AlwaysFill(_, _, _, _)
DecodeRow_AlwaysFill(data_list, fields, i, fill_missing) ==
  IF data_list.kind = "raised" \/ i > Len(fields) THEN data_list
  ELSE IF i > Len(data_list.items) THEN Raised("IndexError", <<>>)
  ELSE LET value == IF fields[i] # ""
                    THEN Cast(data_list.items[i][2], fields[i]) ELSE None
       IN  IF value.kind = "raised" THEN value
           ELSE DecodeRow_AlwaysFill(
                  [data_list EXCEPT !.items[i][3] = Append(@, value)],
                  fields, i + 1, fill_missing)

\* the inner loop: the fields of one row, from position i on
RECURSIVE DecodeRow(_, _, _, _)
DecodeRow(data_list, fields, i, fill_missing) ==
  IF data_list.kind = "raised" \/ i > Len(fields) THEN data_list
  ELSE IF fields[i] # ""
  THEN IF i > Len(data_list.items) THEN Raised("IndexError", <<>>)
       ELSE LET value == Cast(data_list.items[i][2], fields[i])
            IN  IF value.kind = "raised" THEN value
                ELSE DecodeRow(
                       [data_list EXCEPT !.items[i][3] = Append(@, value)],
                       fields, i + 1, fill_missing)
  ELSE IF fill_missing
  THEN IF i > Len(data_list.items) THEN Raised("IndexError", <<>>)
       ELSE DecodeRow([data_list EXCEPT !.items[i][3] = Append(@, None)],
                      fields, i + 1, fill_missing)
  ELSE DecodeRow(data_list, fields, i + 1, fill_missing)

\* faulty variant: the loop over the rows stops after the first
DecodeRows_FirstOnly(data_list, data, delimiter, fill_missing) ==
  IF data_list.kind = "raised" \/ data = <<>> THEN data_list
  ELSE DecodeRow(data_list, Split(data[1], delimiter), 1, fill_missing)

\* the outer loop: for data_str in log.logData[0].data
RECURSIVE DecodeRows(_, _, _, _)
DecodeRows(data_list, data, delimiter, fill_missing) ==
  IF data_list.kind = "raised" \/ data = <<>> THEN data_list
  ELSE DecodeRows(DecodeRow(data_list, Split(data[1], delimiter), 1,
                            fill_missing),
                  Tail(data), delimiter, fill_missing)

\* {mnem: values for mnem, _, values in data_list}
RECURSIVE MnemDict(_, _)
MnemDict(frame, items) ==
  IF items = <<>> THEN PyDict(frame)
  ELSE MnemDict(DictSet(frame, items[1][1], PyList(items[1][3])), Tail(items))

LogdataDict(log, fill_missing) ==
  IF \E i \in 1..Len(log.logCurveInfo) :
       log.logCurveInfo[i].typeLogData \notin LogPrimTypeNames
  THEN LET first == CHOOSE i \in 1..Len(log.logCurveInfo) :
                      /\ log.logCurveInfo[i].typeLogData \notin LogPrimTypeNames
                      /\ \A j \in 1..(i - 1) :
                           log.logCurveInfo[j].typeLogData \in LogPrimTypeNames
       IN  Raised("KeyError", <<log.logCurveInfo[first].typeLogData>>)
  ELSE LET delimiter == IF log.dataDelimiter = None THEN ","
                        ELSE log.dataDelimiter.v
           mnems == Split(log.mnemonicList, delimiter)
       IN  IF \E i \in 1..Len(mnems) : ~HasCurve(log, mnems[i])
           THEN LET first == CHOOSE i \in 1..Len(mnems) :
                               /\ ~HasCurve(log, mnems[i])
                               /\ \A j \in 1..(i - 1) : HasCurve(log, mnems[j])
                IN  Raised("KeyError", <<mnems[first]>>)
           ELSE LET data_list ==
                      PyList([i \in 1..Len(mnems) |->
                                <<mnems[i], MnemCast(log, mnems[i]), <<>>>>])
                    decoded == DecodeRows(data_list, log.data, delimiter,
                                          fill_missing)
                IN  IF decoded.kind = "raised" THEN decoded
                    ELSE MnemDict(<<>>, decoded.items)

(***************************************************************************)
(* to_plain.  o holds include_attr, prefix_attr, delimiter and transpose.  *)
(***************************************************************************)
\* dict.fromkeys(names): the distinct ids in order of first occurrence
RECURSIVE FromKeys(_, _)
FromKeys(seen, names) ==
  IF names = <<>> THEN seen
  ELSE FromKeys(IF NotIn(seen, names[1]) THEN Append(seen, names[1]) ELSE seen,
                Tail(names))

\* as_dict[path + prefix_attr + attr_use.id()] = attr_use.value(obj)
RECURSIVE PlainAttrs(_, _, _, _)
PlainAttrs(as_dict, attrs, path, o) ==
  IF attrs = <<>> THEN as_dict
  ELSE PlainAttrs(DictSet(as_dict, path \o o.prefix_attr \o attrs[1][1],
                          attrs[1][2]),
                  Tail(attrs), path, o)

FirstRaised(items) ==
  items[CHOOSE i \in 1..Len(items) :
          /\ items[i].kind = "raised"
          /\ \A j \in 1..(i - 1) : items[j].kind # "raised"]

\* all_keys.update(as_dict) for each frame, then
\* {key: [frame.get(key, None) for frame in frame_list] for key in all_keys}
\* faulty variant: only the first frame's keys are collected
AllKeys_FirstOnly(all_keys, frame_list) ==
  IF frame_list = <<>> THEN all_keys
  ELSE ExtendKeys(all_keys, frame_list[1].items)

RECURSIVE AllKeys(_, _)
AllKeys(all_keys, frame_list) ==
  IF frame_list = <<>> THEN all_keys
  ELSE AllKeys(ExtendKeys(all_keys, frame_list[1].items), Tail(frame_list))

RECURSIVE ValuesAt(_, _)
ValuesAt(frame_list, key) ==
  IF frame_list = <<>> THEN <<>>
  ELSE (IF HasKey(frame_list[1].items, key)
        THEN <<DictGet(frame_list[1].items, key)>> ELSE <<>>)
         \o ValuesAt(Tail(frame_list), key)

\* faulty variant: a frame lacking the key contributes nothing
Pivot_SkipMissing(frame_list) ==
  LET all_keys == AllKeys(<<>>, frame_list)
  IN  PyDict([k \in 1..Len(all_keys) |->
                <<all_keys[k], PyList(ValuesAt(frame_list, all_keys[k]))>>])

Pivot(frame_list) ==
  LET all_keys == AllKeys(<<>>, frame_list)
  IN  PyDict([k \in 1..Len(all_keys) |->
                <<all_keys[k],
                  PyList([i \in 1..Len(frame_list) |->
                            IF HasKey(frame_list[i].items, all_keys[k])
                            THEN DictGet(frame_list[i].items, all_keys[k])
                            ELSE None])>>])

RECURSIVE AnyToPlain(_, _)
RECURSIVE SingularToPlain(_, _)
RECURSIVE ChildrenToPlain(_, _, _, _)
RECURSIVE PluralToListOfPlains(_, _)
RECURSIVE PluralToDictOfLists(_, _)

AnyToPlain(obj, o) ==
  IF obj.kind \in {"plural", "list"}
  THEN IF o.transpose THEN PluralToDictOfLists(obj, o)
       ELSE PluralToListOfPlains(obj, o)
  ELSE IF obj.kind = "complex" /\ obj.cls = "obj_log"
  THEN LogdataDict(obj, TRUE)
  ELSE SingularToPlain(obj, o)

SingularToPlain(obj, o) ==
  IF obj.kind # "complex" THEN obj
  ELSE IF obj.tag \in {"EMPTY", "SIMPLE"} THEN obj.value
  ELSE ChildrenToPlain(
         IF o.include_attr THEN PlainAttrs(<<>>, AttributeMap(obj), "", o)
         ELSE <<>>,
         obj,
         FromKeys(<<>>, [i \in 1..Len(obj.content) |-> obj.content[i].id]),
         o)

\* for next_path in dict.fromkeys(names): the child's attributes, then the
\* child
ChildrenToPlain(as_dict, obj, names, o) ==
  IF names = <<>> THEN PyDict(as_dict)
  ELSE LET next_path == names[1]
           next_obj == ElementValue(obj, next_path)
           with_attrs == IF o.include_attr
                         THEN PlainAttrs(as_dict, AttributeMap(next_obj),
                                         next_path \o o.delimiter, o)
                         ELSE as_dict
           plain == AnyToPlain(next_obj, o)
       IN  IF plain.kind = "raised" THEN plain
           ELSE ChildrenToPlain(DictSet(with_attrs, next_path, plain),
                                obj, Tail(names), o)

PluralToListOfPlains(plural_obj, o) ==
  LET plains == [i \in 1..Len(plural_obj.items) |->
                   AnyToPlain(plural_obj.items[i], o)]
  IN  IF \E i \in 1..Len(plains) : plains[i].kind = "raised"
      THEN FirstRaised(plains)
      ELSE PyList(plains)

\* a member whose plain form is not a mapping stops all_keys.update
PluralToDictOfLists(plural_obj, o) ==
  LET frame_list == [i \in 1..Len(plural_obj.items) |->
                       AnyToPlain(plural_obj.items[i], o)]
      bad == [i \in 1..Len(frame_list) |->
                IF frame_list[i].kind = "raised" THEN frame_list[i]
                ELSE IF frame_list[i].kind # "dict"
                THEN Raised("ValueError", <<>>)
                ELSE None]
  IN  IF \E i \in 1..Len(bad) : bad[i].kind = "raised"
      THEN FirstRaised(bad)
      ELSE Pivot(frame_list)

ToPlain(obj, o) == AnyToPlain(obj, o)

(***************************************************************************)
(* The arguments.  A structured node declares the singular elements a and  *)
(* b and the repeated element p; its content holds up to two occurrences,  *)
(* in any order, and it carries the attribute uid.  A leaf is a            *)
(* simple-typed value or a simple-content node carrying uid.               *)
(***************************************************************************)
MaxMembers == 2

MaxRows == 2

SingularNames == {"a", "b"}

RepeatedNames == {"p"}

ChildCounts == 0..2

UidAttr == <<<<"uid", Scalar("u")>>>>

Leaves == {Scalar("x"), SimpleNode(UidAttr, "y")}

SeqsUpTo(S, counts) == UNION {[1..k -> S] : k \in counts}

\* a singular element occurs at most once
ValidContent(content) ==
  \A i, j \in 1..Len(content) :
    (i < j /\ content[i].id = content[j].id) => content[i].id \in RepeatedNames

Contents(values, counts) ==
  {content \in SeqsUpTo([id : SingularNames \cup RepeatedNames, value : values],
                        counts) :
     ValidContent(content)}

\* structured nodes whose children are leaves
FlatNodes ==
  {StructNode("obj_x", UidAttr, content, RepeatedNames) :
     content \in Contents(Leaves, ChildCounts)}

\* structured nodes, carrying uid, with one structured child of at most one leaf
NestedNodes ==
  {StructNode("obj_x", UidAttr,
              <<[id |-> id, value |-> StructNode("cs_y", UidAttr, content,
                                                 RepeatedNames)]>>,
              RepeatedNames) :
     id \in {"a", "p"}, content \in Contents({Scalar("x")}, 0..1)}

Members == FlatNodes \cup NestedNodes

Plurals == {PluralBinding(items) : items \in SeqsUpTo(Members, 0..MaxMembers)}

\* structured nodes over leaves and flat nodes: two levels of children
DeepNodes ==
  {StructNode("obj_x", UidAttr, content, RepeatedNames) :
     content \in Contents(Leaves \cup FlatNodes, ChildCounts)}

Singulars == Leaves \cup DeepNodes

FlattenOptions ==
  {[include_attr |-> FALSE, prefix_attr |-> "", delimiter |-> ".", start_idx |-> 0],
   [include_attr |-> TRUE, prefix_attr |-> "@", delimiter |-> ".", start_idx |-> 0],
   [include_attr |-> FALSE, prefix_attr |-> "", delimiter |-> "/", start_idx |-> 1]}

PlainOptions ==
  [include_attr : BOOLEAN, prefix_attr : {"@"}, delimiter : {"."},
   transpose : BOOLEAN]

(***************************************************************************)
(* Logs: the curves DEPT and GR, a mnemonic list of one or both, rows of   *)
(* one or two fields joined by the log's delimiter.                        *)
(***************************************************************************)
FieldTexts == {"", "100.0", "7", "abc"}

CurveTypes == {"double", "int", "string", "byte", "uint8"}

MnemonicLists == {<<"DEPT">>, <<"DEPT", "GR">>}

RowWidths == 1..2

\* delimiter.join(fields) as a text
RECURSIVE JoinText(_, _)
JoinText(fields, delimiter) ==
  IF fields = <<>> THEN <<>>
  ELSE (IF fields[1] = "" THEN <<>> ELSE <<fields[1]>>)
         \o (IF Len(fields) = 1 THEN <<>>
             ELSE <<delimiter>> \o JoinText(Tail(fields), delimiter))

Log(dataDelimiter, types, mnems, rows) ==
  LET delimiter == IF dataDelimiter = None THEN "," ELSE dataDelimiter.v
  IN  [kind |-> "complex", cls |-> "obj_log", tag |-> "ELEMENT_ONLY",
       dataDelimiter |-> dataDelimiter,
       logCurveInfo |-> <<[mnemonic |-> "DEPT", typeLogData |-> types[1]],
                          [mnemonic |-> "GR", typeLogData |-> types[2]]>>,
       mnemonicList |-> JoinText(mnems, delimiter),
       data |-> [r \in 1..Len(rows) |-> JoinText(rows[r], delimiter)]]

Logs ==
  {Log(dataDelimiter, types, mnems, rows) :
     dataDelimiter \in {None, Scalar(";")},
     types \in CurveTypes \X {"double", "string"},
     mnems \in MnemonicLists,
     rows \in SeqsUpTo(SeqsUpTo(FieldTexts, RowWidths), 0..MaxRows)}

(***************************************************************************)
(* The calls.                                                              *)
(***************************************************************************)
Start(args) ==
  /\ arg \in args
  /\ pc = "start"
  /\ call = [fn |-> "none"]
  /\ ret = None
  /\ walk = [obj_list |-> <<>>, flatten_witsml |-> <<>>]
  /\ sent = <<>>

\* (a log is modelled by the fields logdata_dict reads, not by its content)
CallObjDict ==
  /\ pc = "start"
  /\ arg.kind = "scalar" \/ (arg.kind = "complex" /\ arg.cls # "obj_log")
  /\ \E o \in FlattenOptions :
       /\ call' = [fn |-> "obj_dict", o |-> o]
       /\ ret' = PyDict(ObjDict(arg, o))
  /\ pc' = "done"
  /\ UNCHANGED <<arg, walk, sent>>

CallPluralDict ==
  /\ pc = "start"
  /\ arg.kind = "plural"
  /\ \E o \in FlattenOptions, fill_missing \in BOOLEAN :
       /\ call' = [fn |-> "plural_dict", o |-> o, fill_missing |-> fill_missing]
       /\ ret' = PluralDict(arg, fill_missing, o)
  /\ pc' = "done"
  /\ UNCHANGED <<arg, walk, sent>>

CallToPlain ==
  /\ pc = "start"
  /\ arg.kind # "request"
  /\ \E o \in PlainOptions :
       /\ call' = [fn |-> "to_plain", o |-> o]
       /\ ret' = ToPlain(arg, o)
  /\ pc' = "done"
  /\ UNCHANGED <<arg, walk, sent>>

\* the caller hands the list of plain mappings back to to_plain, transposed
CallPivot ==
  /\ pc = "done"
  /\ call.fn = "to_plain"
  /\ ~call.o.transpose
  /\ ret.kind = "list"
  /\ call' = [fn |-> "to_plain", o |-> [call.o EXCEPT !.transpose = TRUE]]
  /\ ret' = ToPlain(ret, [call.o EXCEPT !.transpose = TRUE])
  /\ pc' = "pivoted"
  /\ UNCHANGED <<arg, walk, sent>>

CallLogdataDict ==
  /\ pc = "start"
  /\ arg.kind = "complex" /\ arg.cls = "obj_log"
  /\ \E fill_missing \in BOOLEAN :
       /\ call' = [fn |-> "logdata_dict", fill_missing |-> fill_missing]
       /\ ret' = LogdataDict(arg, fill_missing)
  /\ pc' = "done"
  /\ UNCHANGED <<arg, walk, sent>>

InitTree == Start(Singulars)

NextTree == CallObjDict \/ CallToPlain

SpecTree == InitTree /\ [][NextTree]_vars

InitFrame == Start(Plurals)

NextFrame == CallPluralDict \/ CallToPlain \/ CallPivot

SpecFrame == InitFrame /\ [][NextFrame]_vars

InitLog == Start(Logs)

NextLog == CallLogdataDict

SpecLog == InitLog /\ [][NextLog]_vars

(***************************************************************************)
(* The generic store client (soap_client.py).  The witsml module binds the *)
(* queryable types obj_wellbore and obj_log, their envelopes wellbores and *)
(* logs, and the type cs_x that has no envelope.  A type name is kept as   *)
(* its prefix and the rest, so that rpartition('obj_') is a computation.   *)
(* A selector is the set of keywords handed to the type's constructor.     *)
(***************************************************************************)
TypeName(prefix, base) == [kind |-> "type", prefix |-> prefix, base |-> base]

\* the names bound in the witsml module
WitsmlTypes == {TypeName("obj_", "wellbore"), TypeName("obj_", "log"),
                TypeName("cs_", "x")}

WitsmlEnvelopes == {"wellbores", "logs"}

\* the elements and attributes a type's constructor takes as keywords
TypeFields == {"name", "uid"}

\* class ReturnElements(str, Enum)
ReturnElements ==
  {"all", "id-only", "header-only", "data-only", "station-location-only",
   "latest-change-only", "requested"}

\* object_type._Name().rpartition('obj_')[2]: the text after the last
\* 'obj_', the whole name when there is none
RPartitionObj(type) ==
  IF type.prefix = "obj_" THEN type.base ELSE type.prefix \o type.base

\* _to_envelope: the type of the first object names the envelope; every
\* failure on the way is raised as TypeError; an object of another type is
\* refused by the envelope's constructor
ToEnvelope(objects) ==
  IF objects = <<>> THEN Raised("TypeError", <<"list index out of range">>)
  ELSE LET typename == RPartitionObj(objects[1].type)
       IN  IF typename \o "s" \notin WitsmlEnvelopes
           THEN Raised("TypeError", <<"no attribute " \o typename \o "s">>)
           ELSE IF \E i \in 1..Len(objects) : objects[i].type # objects[1].type
           THEN Raised("MixedContentError", <<>>)
           ELSE [kind |-> "envelope", typename |-> typename,
                 xml |-> [root |-> typename \o "s", members |-> objects]]

GetFromStore(typename, xml, returnElements) ==
  [op |-> "WMLS_GetFromStore", WMLtypeIn |-> typename, QueryIn |-> xml,
   OptionsIn |-> "returnElements=" \o returnElements]

\* faulty variant: the request is issued before returnElements is looked up
GetObjects_RequestFirst(objects, returnElements) ==
  LET envelope == ToEnvelope(objects)
  IN  IF envelope.kind = "raised" THEN [ret |-> envelope, sent |-> <<>>]
      ELSE IF returnElements \notin ReturnElements
      THEN [ret |-> Raised("ValueError", <<returnElements>>),
            sent |-> <<GetFromStore(envelope.typename, envelope.xml,
                                    returnElements)>>]
      ELSE [ret |-> envelope,
            sent |-> <<GetFromStore(envelope.typename, envelope.xml,
                                    returnElements)>>]

\* get_objects up to the remote call: what it raises, or the envelope, and
\* the operations it invokes on the store
GetObjects(objects, returnElements) ==
  LET envelope == ToEnvelope(objects)
  IN  IF envelope.kind = "raised" THEN [ret |-> envelope, sent |-> <<>>]
      ELSE IF returnElements \notin ReturnElements
      THEN [ret |-> Raised("ValueError", <<returnElements>>), sent |-> <<>>]
      ELSE [ret |-> envelope,
            sent |-> <<GetFromStore(envelope.typename, envelope.xml,
                                    returnElements)>>]

\* get: the type is looked up by name, one object is built per selector, any
\* failure is raised as TypeError; then get_objects
Get(object_type, selectors, returnElements) ==
  LET type == IF object_type.kind = "str"
              THEN TypeName("obj_", object_type.v)
              ELSE object_type
  IN  IF type \notin WitsmlTypes
      THEN [ret |-> Raised("TypeError",
                           <<"no attribute " \o type.prefix \o type.base>>),
            sent |-> <<>>]
      ELSE IF \E i \in 1..Len(selectors) : ~(selectors[i] \subseteq TypeFields)
      THEN [ret |-> Raised("TypeError", <<"unexpected keyword">>),
            sent |-> <<>>]
      ELSE GetObjects([i \in 1..Len(selectors) |->
                         [kind |-> "complex", type |-> type,
                          kwargs |-> selectors[i]]],
                      returnElements)

\* list: get with the one selector
List(object_type, returnElements, selector) ==
  Get(object_type, <<selector>>, returnElements)

\* StoreException(reply, base_message)
StoreException(reply, base_message) ==
  [kind |-> "raised", exc |-> "StoreException",
   args |-> <<ToString(reply.Result) \o " : " \o base_message \o " - "
                \o reply.SuppMsgOut>>,
   reply |-> reply, message |-> base_message]

\* witsml.CreateFromDocument(XMLout): the bound document, or the binding
\* layer's exception for a text that does not validate
CreateFromDocument(XMLout) ==
  IF XMLout.valid
  THEN [kind |-> "document", root |-> XMLout.root,
        members |-> PluralBinding(XMLout.members)]
  ELSE Raised("PyXBException", <<>>)

\* what WMLS_GetBaseMsg returns when the lookup works
BaseMsg(Result) == "base message " \o ToString(Result)

\* faulty variant: a failing WMLS_GetBaseMsg is not caught
ParseReply_LookupPropagates(reply, lookup) ==
  IF reply.Result <= 0
  THEN [ret |-> IF lookup = "ok"
                THEN StoreException(reply, BaseMsg(reply.Result))
                ELSE Raised("WebFault", <<>>),
        sent |-> <<[op |-> "WMLS_GetBaseMsg", ReturnValueIn |-> reply.Result]>>]
  ELSE IF "XMLout" \in DOMAIN reply
  THEN [ret |-> CreateFromDocument(reply.XMLout), sent |-> <<>>]
  ELSE [ret |-> None, sent |-> <<>>]

\* _parse_reply; lookup is whether WMLS_GetBaseMsg answers ("ok") or raises
ParseReply(reply, lookup) ==
  IF reply.Result <= 0
  THEN [ret |-> StoreException(reply,
                               IF lookup = "ok" THEN BaseMsg(reply.Result)
                               ELSE "Could not parse error code"),
        sent |-> <<[op |-> "WMLS_GetBaseMsg", ReturnValueIn |-> reply.Result]>>]
  ELSE IF "XMLout" \in DOMAIN reply
  THEN [ret |-> CreateFromDocument(reply.XMLout), sent |-> <<>>]
  ELSE [ret |-> None, sent |-> <<>>]

\* getattr(document, typename)
GetAttr(document, typename) ==
  IF document.kind = "document" /\ document.root = typename \o "s"
  THEN document.members
  ELSE Raised("AttributeError", <<typename>>)

(***************************************************************************)
(* The client's calls and the store's replies.                             *)
(***************************************************************************)
ObjectTypes ==
  {[kind |-> "str", v |-> "wellbore"], [kind |-> "str", v |-> "nosuch"],
   TypeName("obj_", "log"), TypeName("cs_", "x")}

Selectors == {{}, {"name"}, {"bogus"}}

ReturnElementsArgs == {"all", "id-only", "everything"}

QueryObjects ==
  {[kind |-> "complex", type |-> type, kwargs |-> {}] : type \in WitsmlTypes}

Requests ==
  {[kind |-> "request", fn |-> "list", object_type |-> t, selector |-> q,
    returnElements |-> e] :
     t \in ObjectTypes, q \in Selectors, e \in ReturnElementsArgs}
    \cup
  {[kind |-> "request", fn |-> "get", object_type |-> t, selectors |-> qs,
    returnElements |-> e] :
     t \in ObjectTypes, qs \in SeqsUpTo(Selectors, 0..2),
     e \in ReturnElementsArgs}
    \cup
  {[kind |-> "request", fn |-> "get_objects", objects |-> os,
    returnElements |-> e] :
     os \in SeqsUpTo(QueryObjects, 0..2), e \in ReturnElementsArgs}

\* the store's answers: Result and SuppMsgOut, and XMLout for the operations
\* that return a document
XMLouts ==
  {[root |-> r, members |-> <<>>, valid |-> v] :
     r \in WitsmlEnvelopes, v \in BOOLEAN}

Replies ==
  {[Result |-> r, SuppMsgOut |-> m] : r \in -1..1, m \in {"", "detail"}}
    \cup
  {[Result |-> r, SuppMsgOut |-> m, XMLout |-> x] :
     r \in -1..1, m \in {""}, x \in XMLouts}

\* the call up to the remote operation: it raises, or the request is out
Issue(fn, r) ==
  /\ sent' = sent \o r.sent
  /\ IF r.ret.kind = "raised"
     THEN /\ call' = [fn |-> fn]
          /\ ret' = r.ret
          /\ pc' = "done"
     ELSE /\ call' = [fn |-> fn, typename |-> r.ret.typename]
          /\ ret' = None
          /\ pc' = "requested"
  /\ UNCHANGED <<arg, walk>>

CallList ==
  /\ pc = "start"
  /\ arg.kind = "request" /\ arg.fn = "list"
  /\ Issue("list", List(arg.object_type, arg.returnElements, arg.selector))

CallGet ==
  /\ pc = "start"
  /\ arg.kind = "request" /\ arg.fn = "get"
  /\ Issue("get", Get(arg.object_type, arg.selectors, arg.returnElements))

CallGetObjects ==
  /\ pc = "start"
  /\ arg.kind = "request" /\ arg.fn = "get_objects"
  /\ Issue("get_objects", GetObjects(arg.objects, arg.returnElements))

\* the store answers the request
StoreReplies ==
  /\ pc = "requested"
  /\ \E reply \in Replies :
       call' = [fn |-> call.fn, typename |-> call.typename, reply |-> reply]
  /\ pc' = "replied"
  /\ UNCHANGED <<arg, ret, walk, sent>>

\* the transport raises for an HTTP error status
TransportFails ==
  /\ pc = "requested"
  /\ ret' = Raised("HTTPError", <<>>)
  /\ pc' = "done"
  /\ UNCHANGED <<arg, call, walk, sent>>

\* self._parse_reply(reply)
CallParseReply ==
  /\ pc = "replied"
  /\ \E lookup \in (IF call.reply.Result <= 0 THEN {"ok", "raises"}
                      ELSE {"not called"}) :
       /\ LET r == ParseReply(call.reply, lookup)
          IN  /\ ret' = r.ret
              /\ sent' = sent \o r.sent
       /\ call' = [fn |-> call.fn, typename |-> call.typename,
                   reply |-> call.reply, lookup |-> lookup]
  /\ pc' = "parsed"
  /\ UNCHANGED <<arg, walk>>

\* return getattr(self._parse_reply(reply), typename); what _parse_reply
\* raised goes to the caller
ReturnObjects ==
  /\ pc = "parsed"
  /\ ret' = IF ret.kind = "raised" THEN ret ELSE GetAttr(ret, call.typename)
  /\ pc' = "done"
  /\ UNCHANGED <<arg, call, walk, sent>>

InitClient == Start(Requests)

NextClient ==
  \/ CallList
  \/ CallGet
  \/ CallGetObjects
  \/ StoreReplies
  \/ TransportFails
  \/ CallParseReply
  \/ ReturnObjects

SpecClient == InitClient /\ [][NextClient]_vars

(***************************************************************************)
(* obj_dict, one iteration of its while loop at a time.                    *)
(***************************************************************************)
WalkNodes == Leaves \cup Members

\* obj_list = [('', obj)]; flatten_witsml = OrderedDict()
ObjDictBegin ==
  /\ pc = "start"
  /\ arg.kind = "scalar" \/ (arg.kind = "complex" /\ arg.cls # "obj_log")
  /\ \E o \in FlattenOptions : call' = [fn |-> "obj_dict", o |-> o]
  /\ walk' = [obj_list |-> <<<<"", arg>>>>, flatten_witsml |-> <<>>]
  /\ pc' = "walking"
  /\ UNCHANGED <<arg, ret, sent>>

\* while obj_list: one pop, and what it pushes and emits
ObjDictIterate ==
  /\ pc = "walking"
  /\ walk.obj_list # <<>>
  /\ walk' = ObjDictStep(walk.obj_list, walk.flatten_witsml, call.o)
  /\ UNCHANGED <<arg, pc, call, ret, sent>>

\* return flatten_witsml
ObjDictReturn ==
  /\ pc = "walking"
  /\ walk.obj_list = <<>>
  /\ ret' = PyDict(walk.flatten_witsml)
  /\ pc' = "done"
  /\ UNCHANGED <<arg, call, walk, sent>>

InitWalk == Start(WalkNodes)

NextWalk == ObjDictBegin \/ ObjDictIterate \/ ObjDictReturn

SpecWalk == InitWalk /\ [][NextWalk]_vars

Init == Start(Singulars \cup Plurals \cup Logs \cup Requests)

Next ==
  \/ CallObjDict
  \/ CallPluralDict
  \/ CallToPlain
  \/ CallPivot
  \/ CallLogdataDict
  \/ NextClient
  \/ NextWalk

Spec == Init /\ [][Next]_vars

(***************************************************************************)
(* Properties of plural_dict (checked under SpecFrame).                    *)
(***************************************************************************)
ReturnedFrom(fn) == pc = "done" /\ call.fn = fn

\* the flattened mapping of each member, under the call's options
MemberDicts == [i \in 1..Len(arg.items) |-> ObjDict(arg.items[i], call.o)]

Column(frame, key) == DictGet(frame.items, key).items

NoDuplicateKeys(d) ==
  \A i, j \in 1..Len(d) : d[i][1] = d[j][1] => i = j

\* where a key is first seen: <<member, position in the member's mapping>>
FirstSeen(dicts, key) ==
  LET i == CHOOSE i \in 1..Len(dicts) :
             /\ HasKey(dicts[i], key)
             /\ \A h \in 1..(i - 1) : ~HasKey(dicts[h], key)
  IN  <<i, CHOOSE j \in 1..Len(dicts[i]) : dicts[i][j][1] = key>>

Earlier(s, t) == s[1] < t[1] \/ (s[1] = t[1] /\ s[2] < t[2])

\* C1: with fill_missing, every key's sequence in the frame plural_dict
\* returns has exactly as many entries as the collection has members.
C1_FillMissingColumnsHaveMemberCount ==
  (ReturnedFrom("plural_dict") /\ call.fill_missing) =>
    \A k \in 1..Len(ret.items) : Len(ret.items[k][2].items) = Len(arg.items)

C1_Witness ==
  /\ ReturnedFrom("plural_dict") /\ call.fill_missing
  /\ Len(arg.items) = 2
  /\ Len(ret.items) >= 3
  /\ \E k \in 1..Len(ret.items) : ret.items[k][2].items[1] = None
  /\ \E k \in 1..Len(ret.items) : ret.items[k][2].items[2] = None

\* C2: with fill_missing, the frame's keys are the union of the members'
\* flattened keys in first-seen order, and entry i of key k is member i's
\* value for k when member i has k, None otherwise.
C2_FillMissingFrameIsUnionWithNulls ==
  (ReturnedFrom("plural_dict") /\ call.fill_missing) =>
    LET dicts == MemberDicts
    IN  /\ KeySet(ret.items) = UNION {KeySet(dicts[i]) : i \in 1..Len(dicts)}
        /\ NoDuplicateKeys(ret.items)
        /\ \A s, t \in 1..Len(ret.items) :
             s < t => Earlier(FirstSeen(dicts, ret.items[s][1]),
                              FirstSeen(dicts, ret.items[t][1]))
        /\ \A k \in KeySet(ret.items) :
             /\ Len(Column(ret, k)) = Len(dicts)
             /\ \A i \in 1..Len(dicts) :
                  Column(ret, k)[i] = IF HasKey(dicts[i], k)
                                      THEN DictGet(dicts[i], k)
                                      ELSE None

\* members with keys {a, b} and {a, p[0]}: b = [value, None], p[0] = [None, value]
C2_Witness ==
  /\ ReturnedFrom("plural_dict") /\ call.fill_missing
  /\ Len(arg.items) = 2
  /\ KeySet(ret.items) = {"a", "b", "p[0]"}
  /\ KeySet(MemberDicts[1]) = {"a", "b"}
  /\ KeySet(MemberDicts[2]) = {"a", "p[0]"}
  /\ Column(ret, "b")[1] # None /\ Column(ret, "b")[2] = None
  /\ Column(ret, "p[0]")[1] = None /\ Column(ret, "p[0]")[2] # None
  /\ Column(ret, "a")[1] # Column(ret, "a")[2]

\* the values of the members that have the key, in member order
RECURSIVE ValuesOf(_, _)
ValuesOf(dicts, key) ==
  IF dicts = <<>> THEN <<>>
  ELSE (IF HasKey(dicts[1], key) THEN <<DictGet(dicts[1], key)>> ELSE <<>>)
         \o ValuesOf(Tail(dicts), key)

\* C3: without fill_missing, each key's sequence holds exactly the values of
\* the members that have the key, in member order, with no None inserted; a
\* member lacking the key only makes the sequence shorter.
C3_NoFillColumnsHoldOnlyPresentValues ==
  (ReturnedFrom("plural_dict") /\ ~call.fill_missing) =>
    LET dicts == MemberDicts
    IN  /\ ret.kind = "dict"
        /\ KeySet(ret.items) = UNION {KeySet(dicts[i]) : i \in 1..Len(dicts)}
        /\ NoDuplicateKeys(ret.items)
        /\ \A k \in KeySet(ret.items) :
             /\ Column(ret, k) = ValuesOf(dicts, k)
             /\ \A j \in 1..Len(Column(ret, k)) : Column(ret, k)[j] # None

C3_Witness ==
  /\ ReturnedFrom("plural_dict") /\ ~call.fill_missing
  /\ Len(arg.items) = 2
  /\ \E k \in KeySet(ret.items) :
       /\ Len(Column(ret, k)) = 1
       /\ ~HasKey(MemberDicts[1], k)
  /\ \E k \in KeySet(ret.items) :
       /\ Len(Column(ret, k)) = 2
       /\ Column(ret, k)[1] # Column(ret, k)[2]

(***************************************************************************)
(* The round trip: to_plain, then to_plain with transpose on its result,   *)
(* against plural_dict (checked under SpecFrame).                          *)
(***************************************************************************)
\* plural_dict's options matching a to_plain call
MatchingFlatten(o) ==
  [include_attr |-> o.include_attr, prefix_attr |-> o.prefix_attr,
   delimiter |-> o.delimiter, start_idx |-> 0]

\* the same keys and the same sequences, whatever the order of the keys
SameFrame(f, g) ==
  /\ f.kind = "dict" /\ g.kind = "dict"
  /\ KeySet(f.items) = KeySet(g.items)
  /\ \A k \in KeySet(f.items) : DictGet(f.items, k) = DictGet(g.items, k)

\* a structured member, not a log, whose children are all singular leaves
LeafChildrenOnly(obj) ==
  /\ IsStructured(obj)
  /\ obj.cls # "obj_log"
  /\ \A i \in 1..Len(obj.content) :
       /\ obj.content[i].id \notin obj.plural
       /\ ~IsStructured(obj.content[i].value)

\* C4 as claimed: for every collection the pivoted plain mappings equal
\* plural_dict's frame (fill_missing) up to key order.
C4_RoundTripForEveryCollection ==
  pc = "pivoted" =>
    SameFrame(ret, PluralDict(arg, TRUE, MatchingFlatten(call.o)))

\* C4, amended: the pivoted plain mappings equal plural_dict's frame
\* (fill_missing) up to key order when every member is a structured node
\* whose children are all singular leaves.
C4_RoundTripForLeafChildren ==
  (pc = "pivoted" /\ \A i \in 1..Len(arg.items) : LeafChildrenOnly(arg.items[i]))
    => SameFrame(ret, PluralDict(arg, TRUE, MatchingFlatten(call.o)))

C4_Witness ==
  /\ pc = "pivoted"
  /\ call.o.include_attr
  /\ Len(arg.items) = 2
  /\ \A i \in 1..Len(arg.items) : LeafChildrenOnly(arg.items[i])
  /\ ret.kind = "dict"
  /\ Len(ret.items) >= 3
  /\ \E k \in KeySet(ret.items) : Column(ret, k)[1] = None
  /\ \E k \in KeySet(ret.items) : Column(ret, k)[2] = None

(***************************************************************************)
(* Properties of logdata_dict (checked under SpecLog).  The fields of a    *)
(* text are read off the places of its delimiter pieces.                   *)
(***************************************************************************)
Delimiter(log) ==
  IF log.dataDelimiter = None THEN "," ELSE log.dataDelimiter.v

Cuts(text, d) == {i \in 1..Len(text) : text[i] = d}

FieldCount(text, d) == Cardinality(Cuts(text, d)) + 1

NthCut(text, d, n) ==
  CHOOSE c \in Cuts(text, d) :
    Cardinality({x \in Cuts(text, d) : x < c}) = n - 1

RECURSIVE Concat(_)
Concat(pieces) ==
  IF pieces = <<>> THEN "" ELSE pieces[1] \o Concat(Tail(pieces))

FieldOf(text, d, j) ==
  LET lo == IF j = 1 THEN 0 ELSE NthCut(text, d, j - 1)
      hi == IF j = FieldCount(text, d) THEN Len(text) + 1
            ELSE NthCut(text, d, j)
  IN  Concat(SubSeq(text, lo + 1, hi - 1))

Mnemonics(log) ==
  [j \in 1..FieldCount(log.mnemonicList, Delimiter(log)) |->
     FieldOf(log.mnemonicList, Delimiter(log), j)]

RowWidth(log, r) == FieldCount(log.data[r], Delimiter(log))

Field(log, r, j) == FieldOf(log.data[r], Delimiter(log), j)

TypesRecognized(log) ==
  \A i \in 1..Len(log.logCurveInfo) :
    log.logCurveInfo[i].typeLogData \in LogPrimTypeNames

DeclaredType(log, mnem) ==
  log.logCurveInfo[CHOOSE i \in 1..Len(log.logCurveInfo) :
                     log.logCurveInfo[i].mnemonic = mnem].typeLogData

\* the field as the column's declared type reads it, None for an empty field
Decoded(log, r, j) ==
  IF Field(log, r, j) = "" THEN None
  ELSE Cast(LOG_PRIM_TYPES(DeclaredType(log, Mnemonics(log)[j])),
            Field(log, r, j))

ExactRows(log) ==
  \A r \in 1..Len(log.data) : RowWidth(log, r) = Len(Mnemonics(log))

\* C5: with fill_missing, on a log whose rows each have as many fields as
\* there are mnemonics and whose non-empty fields all cast, every mnemonic's
\* column has one entry per row, in row order: the cast field, or None for an
\* empty field.
C5_FillMissingColumnsAreCastFieldsOrNone ==
  (ReturnedFrom("logdata_dict") /\ call.fill_missing /\ ExactRows(arg)
     /\ TypesRecognized(arg)
     /\ \A r \in 1..Len(arg.data), j \in 1..Len(Mnemonics(arg)) :
          Decoded(arg, r, j).kind # "raised")
    => /\ ret.kind = "dict"
       /\ DictKeys(ret.items) = Mnemonics(arg)
       /\ \A j \in 1..Len(Mnemonics(arg)) :
            Column(ret, Mnemonics(arg)[j]) =
              [r \in 1..Len(arg.data) |-> Decoded(arg, r, j)]

\* mnemonics "DEPT,GR", both double, rows "100.0,7" and "100.0,"
C5_Witness ==
  /\ ReturnedFrom("logdata_dict") /\ call.fill_missing
  /\ arg.mnemonicList = <<"DEPT", ",", "GR">>
  /\ arg.data = <<<<"100.0", ",", "7">>, <<"100.0", ",">>>>
  /\ ret = PyDict(<<<<"DEPT", PyList(<<[kind |-> "float", v |-> "100.0"],
                                      [kind |-> "float", v |-> "100.0"]>>)>>,
                    <<"GR", PyList(<<[kind |-> "float", v |-> "7.0"],
                                    None>>)>>>>)

\* the casts of the non-empty fields of column j, from row r on
RECURSIVE NonEmptyCasts(_, _, _)
NonEmptyCasts(log, r, j) ==
  IF r > Len(log.data) THEN <<>>
  ELSE (IF j <= RowWidth(log, r) /\ Field(log, r, j) # ""
        THEN <<Decoded(log, r, j)>> ELSE <<>>)
         \o NonEmptyCasts(log, r + 1, j)

\* C6: without fill_missing, an empty field appends nothing: each mnemonic's
\* column is exactly the casts of its non-empty fields in row order, so the
\* columns may be ragged.
C6_NoFillColumnsAreCastsOfNonEmptyFields ==
  (ReturnedFrom("logdata_dict") /\ ~call.fill_missing /\ ret.kind = "dict")
    => /\ DictKeys(ret.items) = Mnemonics(arg)
       /\ \A j \in 1..Len(Mnemonics(arg)) :
            /\ Column(ret, Mnemonics(arg)[j]) = NonEmptyCasts(arg, 1, j)
            /\ \A i \in 1..Len(Column(ret, Mnemonics(arg)[j])) :
                 Column(ret, Mnemonics(arg)[j])[i] # None

\* mnemonics "DEPT,GR", rows "100.0,7" and "100.0,": GR is one entry short
C6_Witness ==
  /\ ReturnedFrom("logdata_dict") /\ ~call.fill_missing
  /\ arg.mnemonicList = <<"DEPT", ",", "GR">>
  /\ arg.data = <<<<"100.0", ",", "7">>, <<"100.0", ",">>>>
  /\ ret = PyDict(<<<<"DEPT", PyList(<<[kind |-> "float", v |-> "100.0"],
                                      [kind |-> "float", v |-> "100.0"]>>)>>,
                    <<"GR", PyList(<<[kind |-> "float", v |-> "7.0"]>>)>>>>)

\* C7 as claimed: with fill_missing, whatever the number of fields in each
\* row, all columns of the returned frame have as many entries as there are
\* rows.
C7_FillMissingColumnsHaveRowCount ==
  (ReturnedFrom("logdata_dict") /\ call.fill_missing /\ ret.kind = "dict")
    => \A k \in 1..Len(ret.items) : Len(ret.items[k][2].items) = Len(arg.data)

\* C7, amended: with fill_missing, when no row has fewer fields than there
\* are mnemonics, all columns of the returned frame have as many entries as
\* there are rows.
C7_FillMissingColumnsHaveRowCountOnFullRows ==
  (ReturnedFrom("logdata_dict") /\ call.fill_missing /\ ret.kind = "dict"
     /\ \A r \in 1..Len(arg.data) : RowWidth(arg, r) >= Len(Mnemonics(arg)))
    => \A k \in 1..Len(ret.items) : Len(ret.items[k][2].items) = Len(arg.data)

C7_Witness ==
  /\ ReturnedFrom("logdata_dict") /\ call.fill_missing /\ ret.kind = "dict"
  /\ Len(arg.data) = 2
  /\ Len(ret.items) = 2
  /\ \A r \in 1..Len(arg.data) : RowWidth(arg, r) = 2
  /\ \E k \in 1..Len(ret.items) : ret.items[k][2].items[2] = None

\* the log with every unrecognized declared type read as "unknown"
AsUnknown(log) ==
  [log EXCEPT !.logCurveInfo =
     [i \in 1..Len(log.logCurveInfo) |->
        IF log.logCurveInfo[i].typeLogData \in LogPrimTypeNames
        THEN log.logCurveInfo[i]
        ELSE [log.logCurveInfo[i] EXCEPT !.typeLogData = "unknown"]]]

\* C8 as claimed: a curve whose declared type is not in the table does not
\* make logdata_dict fail; the call returns what it returns with the type
\* read as text.
C8_UnrecognizedTypeDecodesAsText ==
  (ReturnedFrom("logdata_dict") /\ ~TypesRecognized(arg))
    => /\ ~(ret.kind = "raised" /\ ret.exc = "KeyError")
       /\ ret = LogdataDict(AsUnknown(arg), call.fill_missing)

\* C9 as claimed: a field that does not cast to its column's numeric type
\* makes logdata_dict raise, returning no frame, and the failure carries both
\* the field's text and the column's mnemonic.
C9_CastFailureNamesFieldAndMnemonic ==
  (ReturnedFrom("logdata_dict") /\ ret.kind = "raised"
     /\ ret.exc = "ValueError")
    => \E r \in 1..Len(arg.data) :
         \E j \in 1..Len(Mnemonics(arg)) :
           /\ j <= RowWidth(arg, r)
           /\ Decoded(arg, r, j) = ret
           /\ \E a \in 1..Len(ret.args) : ret.args[a] = Field(arg, r, j)
           /\ \E a \in 1..Len(ret.args) : ret.args[a] = Mnemonics(arg)[j]

(***************************************************************************)
(* Properties of obj_dict (checked under SpecTree).                        *)
(***************************************************************************)
\* no repeated element anywhere below obj
RECURSIVE NoPlural(_)
NoPlural(obj) ==
  /\ obj.kind # "plural"
  /\ IsStructured(obj) =>
       \A i \in 1..Len(obj.content) :
         /\ obj.content[i].id \notin obj.plural
         /\ NoPlural(obj.content[i].value)

\* the chains of child names leading from obj to its leaf descendants
RECURSIVE LeafChains(_)
LeafChains(obj) ==
  IF ~IsStructured(obj) THEN {<<>>}
  ELSE UNION {{<<obj.content[i].id>> \o chain :
                 chain \in LeafChains(obj.content[i].value)} :
              i \in 1..Len(obj.content)}

RECURSIVE LeafAt(_, _)
LeafAt(obj, chain) ==
  IF chain = <<>> THEN obj
  ELSE LeafAt(obj.content[CHOOSE i \in 1..Len(obj.content) :
                            obj.content[i].id = chain[1]].value,
              Tail(chain))

RECURSIVE JoinChain(_, _)
JoinChain(chain, delimiter) ==
  IF chain = <<>> THEN ""
  ELSE IF Len(chain) = 1 THEN chain[1]
  ELSE chain[1] \o delimiter \o JoinChain(Tail(chain), delimiter)

ScalarOf(leaf) == IF leaf.kind = "complex" THEN leaf.value ELSE leaf

\* C10: on a singular object with no repeated element among its descendants,
\* attributes not included, obj_dict returns exactly one entry per leaf
\* descendant, keyed by the chain of child names from the root joined by the
\* delimiter, with no leading delimiter.
C10_OneEntryPerLeafKeyedByNameChain ==
  (ReturnedFrom("obj_dict") /\ ~call.o.include_attr /\ NoPlural(arg)) =>
    /\ Len(ret.items) = Cardinality(LeafChains(arg))
    /\ NoDuplicateKeys(ret.items)
    /\ {ret.items[k] : k \in 1..Len(ret.items)} =
         {<<JoinChain(chain, call.o.delimiter), ScalarOf(LeafAt(arg, chain))>> :
            chain \in LeafChains(arg)}

C10_Witness ==
  /\ ReturnedFrom("obj_dict") /\ ~call.o.include_attr /\ NoPlural(arg)
  /\ call.o.delimiter = "."
  /\ KeySet(ret.items) = {"a.a", "a.b", "b.a"}
  /\ Len(ret.items) = 3

\* the nodes that are not collections at or below obj, each with its path:
\* a member of a collection at path[index], a child at path, delimiter, name
RECURSIVE NodesBelow(_, _, _)
NodesBelow(obj, path, o) ==
  IF obj.kind = "plural"
  THEN UNION {NodesBelow(obj.items[i],
                         path \o "[" \o ToString(o.start_idx + i - 1) \o "]", o) :
              i \in 1..Len(obj.items)}
  ELSE {<<path, obj>>}
         \cup (IF IsStructured(obj)
               THEN UNION {NodesBelow(ElementValue(obj, obj.content[i].id),
                                      IF path = "" THEN obj.content[i].id
                                      ELSE path \o o.delimiter
                                             \o obj.content[i].id,
                                      o) :
                           i \in 1..Len(obj.content)}
               ELSE {})

AttrKey(path, o, id) ==
  IF path = "" THEN "@" \o id ELSE path \o o.delimiter \o "@" \o id

\* C11: with attributes included under the prefix "@", every attribute a of
\* a node that is not a collection, reached at path P, is in obj_dict's
\* result under the key P, delimiter, "@a" ("@a" alone for the root) with
\* the attribute's value; the key differs from P, and a leaf's own value is
\* still in the result under P.
C11_AttributeKeyedBesideNodeKey ==
  (ReturnedFrom("obj_dict") /\ call.o.include_attr /\ call.o.prefix_attr = "@")
    => /\ NoDuplicateKeys(ret.items)
       /\ \A n \in NodesBelow(arg, "", call.o) :
            /\ \A a \in 1..Len(AttributeMap(n[2])) :
                 LET key == AttrKey(n[1], call.o, AttributeMap(n[2])[a][1])
                 IN  /\ key # n[1]
                     /\ HasKey(ret.items, key)
                     /\ DictGet(ret.items, key) = AttributeMap(n[2])[a][2]
            /\ ~IsStructured(n[2]) =>
                 /\ HasKey(ret.items, n[1])
                 /\ DictGet(ret.items, n[1]) = ScalarOf(n[2])

\* the root's uid, a simple-content child a with its uid and its value, and
\* the uid of a member of the collection p
C11_Witness ==
  /\ ReturnedFrom("obj_dict") /\ call.o.include_attr /\ call.o.prefix_attr = "@"
  /\ {"@uid", "a", "a.@uid", "p[0].@uid"} \subseteq KeySet(ret.items)
  /\ DictGet(ret.items, "a") = Scalar("y")
  /\ DictGet(ret.items, "a.@uid") = Scalar("u")

(***************************************************************************)
(* Properties of the store client (checked under SpecClient).              *)
(***************************************************************************)
\* C12: _parse_reply raises StoreException exactly when the reply's Result
\* is not positive, carrying the reply, also when WMLS_GetBaseMsg itself
\* raises (the message is then 'Could not parse error code'); for a positive
\* Result and an XMLout that validates it returns the document bound from
\* XMLout.
C12_StoreExceptionIffResultNotPositive ==
  pc = "parsed" =>
    /\ (ret.kind = "raised" /\ ret.exc = "StoreException")
         <=> call.reply.Result <= 0
    /\ call.reply.Result <= 0 =>
         /\ ret.reply = call.reply
         /\ call.lookup = "ok" => ret.message = BaseMsg(call.reply.Result)
         /\ call.lookup = "raises" => ret.message = "Could not parse error code"
    /\ (call.reply.Result > 0 /\ "XMLout" \in DOMAIN call.reply
          /\ call.reply.XMLout.valid)
         => /\ ret.kind = "document"
            /\ ret.root = call.reply.XMLout.root

\* Result 0, the lookup of the base message raising
C12_Witness ==
  /\ pc = "parsed"
  /\ call.reply.Result = 0
  /\ call.lookup = "raises"
  /\ ret.kind = "raised" /\ ret.exc = "StoreException"
  /\ ret.args = <<"0 : Could not parse error code - detail">>

(***************************************************************************)
(* Properties of obj_dict's work list (checked under SpecWalk).            *)
(***************************************************************************)
\* C13 as claimed: the collection of a repeated child is pushed once for its
\* node: the work list never holds the same path with a collection twice.
C13_RepeatedChildPushedOnce ==
  pc = "walking" =>
    \A i, j \in 1..Len(walk.obj_list) :
      (/\ i < j
       /\ walk.obj_list[i][1] = walk.obj_list[j][1]
       /\ walk.obj_list[i][2].kind = "plural")
        => walk.obj_list[j][2].kind # "plural"

(***************************************************************************)
(* Properties of to_plain's column pivot (checked under SpecFrame).        *)
(***************************************************************************)
\* the plain form of each member, under the call's options
PlainMembers == [i \in 1..Len(arg.items) |-> ToPlain(arg.items[i], call.o)]

\* C14: to_plain with transpose on a collection of N members, each of which
\* converts to a plain mapping, returns a mapping whose keys are the union of
\* the members' keys in first-seen order; every key's sequence has N entries,
\* entry i being member i's plain value for the key, None when member i
\* lacks it.
C14_TransposeIsUnionOfPlainMappings ==
  (ReturnedFrom("to_plain") /\ call.o.transpose /\ arg.kind = "plural"
     /\ \A i \in 1..Len(arg.items) : PlainMembers[i].kind = "dict")
    => LET plains == [i \in 1..Len(arg.items) |-> PlainMembers[i].items]
       IN  /\ ret.kind = "dict"
           /\ KeySet(ret.items) =
                UNION {KeySet(plains[i]) : i \in 1..Len(plains)}
           /\ NoDuplicateKeys(ret.items)
           /\ \A s, t \in 1..Len(ret.items) :
                s < t => Earlier(FirstSeen(plains, ret.items[s][1]),
                                 FirstSeen(plains, ret.items[t][1]))
           /\ \A k \in 1..Len(ret.items) :
                /\ ret.items[k][2].kind = "list"
                /\ Len(ret.items[k][2].items) = Len(arg.items)
                /\ \A i \in 1..Len(arg.items) :
                     ret.items[k][2].items[i] =
                       IF HasKey(plains[i], ret.items[k][1])
                       THEN DictGet(plains[i], ret.items[k][1])
                       ELSE None

\* two members, one with a nested mapping under a, the other with b only
C14_Witness ==
  /\ ReturnedFrom("to_plain") /\ call.o.transpose /\ arg.kind = "plural"
  /\ Len(arg.items) = 2
  /\ ret.kind = "dict"
  /\ DictKeys(ret.items) = <<"a", "b">>
  /\ Column(ret, "a")[1].kind = "dict" /\ Column(ret, "a")[2] = None
  /\ Column(ret, "b")[1] = None /\ Column(ret, "b")[2] = Scalar("x")

(***************************************************************************)
(* Validation before the request (checked under SpecClient).               *)
(***************************************************************************)
ValidationFailure(r) ==
  r.kind = "raised" /\ r.exc \in {"TypeError", "ValueError"}

Queryable == {TypeName("obj_", "wellbore"), TypeName("obj_", "log")}

\* the call names a type that cannot be queried, a selector keyword the type
\* does not take, no object at all, or a returnElements outside the
\* enumeration
InvalidCall(a) ==
  \/ a.returnElements \notin
       {"all", "id-only", "header-only", "data-only", "station-location-only",
        "latest-change-only", "requested"}
  \/ /\ a.fn \in {"list", "get"}
     /\ \/ a.object_type.kind = "str" /\ a.object_type.v \notin {"wellbore", "log"}
        \/ a.object_type.kind = "type" /\ a.object_type \notin Queryable
  \/ a.fn = "list" /\ "bogus" \in a.selector
  \/ /\ a.fn = "get"
     /\ \/ a.selectors = <<>>
        \/ \E i \in 1..Len(a.selectors) : "bogus" \in a.selectors[i]
  \/ /\ a.fn = "get_objects"
     /\ \/ a.objects = <<>>
        \/ a.objects[1].type \notin Queryable

MixedObjects(a) ==
  /\ a.fn = "get_objects"
  /\ \E i, j \in 1..Len(a.objects) : a.objects[i].type # a.objects[j].type

\* C15: in get, list and get_objects a failed validation is raised before
\* any request is issued: when the call has ended in TypeError or ValueError
\* no operation has been invoked on the store, and a call that is invalid
\* never gets as far as a request and ends raising.
C15_ValidationFailsBeforeAnyRequest ==
  /\ ValidationFailure(ret) => sent = <<>>
  /\ InvalidCall(arg) =>
       /\ sent = <<>>
       /\ pc \in {"start", "done"}
       /\ pc = "done" =>
            /\ ret.kind = "raised"
            /\ ~MixedObjects(arg) => ValidationFailure(ret)

\* list('wellbore', 'everything', name=...): type and selector are fine,
\* returnElements is not
C15_Witness ==
  /\ pc = "done"
  /\ arg.fn = "list"
  /\ arg.object_type = [kind |-> "str", v |-> "wellbore"]
  /\ arg.selector = {"name"}
  /\ ret = Raised("ValueError", <<"everything">>)
  /\ sent = <<>>

====
